---- MODULE Spec2Model ----
(***************************************************************************)
(* A model of goodreads.py: the feed extractor (parse_list / parse_item),  *)
(* the pagination driver and cache gate (get_pages / get_list), the four   *)
(* commands, and the document merge engine (save_file).                    *)
(*                                                                         *)
(* Text is modelled at character level: a text is a sequence of            *)
(* one-character strings.                                                  *)
(***************************************************************************)
EXTENDS Integers, Sequences, FiniteSets, TLC

VARIABLES
    files,        \* books_dir: document name -> Absent or its text
    merge,        \* record of the last save_file call made directly
    cache,        \* data dir: list id -> Absent or the snapshot (a list of Book)
    listas,       \* listas_dir: list document name -> Absent or its lines
    pc,           \* position of the running command
    cmd,          \* the running (or last) command
    url,          \* url get_pages is fetching
    id,           \* list id of the running get_list
    page,         \* get_pages: the page counter
    all_books,    \* get_pages: books accumulated so far
    requests,     \* pages requested by the running get_pages, in order
    served,       \* responses served to the running get_pages, in order
    netcalls,     \* number of get_page calls of the running command
    hadSnapshot,  \* whether a snapshot file existed when get_list was entered
    result,       \* what get_list / get_pages returned
    outcome,      \* "none", "returned" or "raised"
    todo,         \* render_list: the books its loop has still to visit
    events,       \* parse_list: the page's event stream
    pos,          \* parse_list: number of events consumed from the stream
    yielded,      \* parse_list: the books yielded so far
    ppc,          \* parse_list: "parsing" or "done"
    feedItems     \* the items the page was built from (what the feed holds)

mergeVars == <<files, merge>>
fetchVars == <<cache, listas, pc, cmd, url, id, page, all_books, requests,
               served, netcalls, hadSnapshot, result, outcome, todo>>
parseVars == <<events, pos, yielded, ppc, feedItems>>
vars == <<files, merge, cache, listas, pc, cmd, url, id, page, all_books,
          requests, served, netcalls, hadSnapshot, result, outcome, todo,
          events, pos, yielded, ppc, feedItems>>

\* A path of books_dir: Absent when it does not exist, File(t) when it holds t.
Absent == [exists |-> FALSE, text |-> <<>>]
File(t) == [exists |-> TRUE, text |-> t]
\* Python's None, as the value of Book.read_date.
None == "None"

---------------------------------------------------------------------------
(* Bounds *)

\* Longest initial document, in pieces (see Pieces).
MaxPieces == 3
\* Pages of a feed that may hold books when get_pages is called on its own;
\* the page after them is empty.
MaxPages == 3
\* The same for a feed fetched by a command.
MaxCmdPages == 1
\* Items of a feed page.
MaxItems == 3
\* Text events between two items of a page.
MaxGap == 1

---------------------------------------------------------------------------
(* Text helpers: str.strip, line iteration, `in`, str.join *)

NL == "\n"

\* Characters str.strip() removes.
IsSpace(c) == c \in {" ", NL}

RECURSIVE LStrip(_)
LStrip(s) == IF s = <<>> THEN s
             ELSE IF IsSpace(Head(s)) THEN LStrip(Tail(s)) ELSE s

RECURSIVE RStrip(_)
RStrip(s) == IF s = <<>> THEN s
             ELSE IF IsSpace(s[Len(s)]) THEN RStrip(SubSeq(s, 1, Len(s) - 1))
             ELSE s

Strip(s) == RStrip(LStrip(s))

\* Index of the first newline of s at or after i, 0 if there is none.
RECURSIVE NLFrom(_, _)
NLFrom(s, i) == IF i > Len(s) THEN 0
                ELSE IF s[i] = NL THEN i ELSE NLFrom(s, i + 1)

FirstNL(s) == NLFrom(s, 1)

\* Iterating a text stream: its lines, each with its terminator.
RECURSIVE Lines(_)
Lines(s) == IF s = <<>> THEN <<>>
            ELSE LET i == FirstNL(s)
                 IN IF i = 0 THEN <<s>>
                    ELSE <<SubSeq(s, 1, i)>> \o Lines(SubSeq(s, i + 1, Len(s)))

\* sub in s
Contains(s, sub) ==
    \E i \in 1..(Len(s) - Len(sub) + 1) : SubSeq(s, i, i + Len(sub) - 1) = sub

RECURSIVE Flatten(_)
Flatten(ls) == IF ls = <<>> THEN <<>> ELSE Head(ls) \o Flatten(Tail(ls))

\* sep.join(ls)
RECURSIVE Join(_, _)
Join(sep, ls) == IF ls = <<>> THEN <<>>
                 ELSE IF Len(ls) = 1 THEN Head(ls)
                 ELSE Head(ls) \o sep \o Join(sep, Tail(ls))

\* takewhile(lambda line: line != stop, ls)
RECURSIVE TakeWhileNot(_, _)
TakeWhileNot(ls, stop) ==
    IF ls = <<>> \/ Head(ls) = stop THEN <<>>
    ELSE <<Head(ls)>> \o TakeWhileNot(Tail(ls), stop)

\* What is left of the stream after that takewhile: it consumed the lines it
\* took and the line that stopped it.
RECURSIVE RestAfter(_, _)
RestAfter(ls, stop) ==
    IF ls = <<>> THEN <<>>
    ELSE IF Head(ls) = stop THEN Tail(ls) ELSE RestAfter(Tail(ls), stop)

---------------------------------------------------------------------------
(* The header block: a YAML document between "---" and "..." *)

Dashes3 == <<"-", "-", "-">>
\* The line extract_yaml_doc stops at: "...\n".
DocEndLine == <<".", ".", ".", NL>>
\* The separator extract_file_text looks for: "----\n".
separator == <<"-", "-", "-", "-", NL>>

\* Keys of a header mapping, in the order a sorted dump emits them:
\* b (book_id), r (read_date), u (a key only the user's header holds).
KeyOrder == <<"b", "r", "u">>
KeyChars == {KeyOrder[i] : i \in 1..Len(KeyOrder)}

EmptyMap == [k \in {} |-> "x"]

\* previous_header | data
MergeMaps(prev, data) ==
    [k \in (DOMAIN prev) \cup (DOMAIN data) |->
        IF k \in DOMAIN data THEN data[k] ELSE prev[k]]

\* One "key: value" line of a block mapping.
EntryLine(k, v) == <<k, ":", " ", v, NL>>

RECURSIVE DumpEntries(_, _)
DumpEntries(data, i) ==
    IF i > Len(KeyOrder) THEN <<>>
    ELSE (IF KeyOrder[i] \in DOMAIN data
          THEN EntryLine(KeyOrder[i], data[KeyOrder[i]]) ELSE <<>>)
         \o DumpEntries(data, i + 1)

\* yaml.dump(data, stream) of make_yaml_parser(): explicit start and end, block
\* style, keys sorted; an empty mapping is emitted in flow style on the start
\* line.
DumpYaml(data) ==
    IF DOMAIN data = {}
    THEN Dashes3 \o <<" ", "{", "}", NL>> \o DocEndLine
    ELSE Dashes3 \o <<NL>> \o DumpEntries(data, 1) \o DocEndLine

\* A line without its terminator.
ChopNL(l) == IF l # <<>> /\ l[Len(l)] = NL THEN SubSeq(l, 1, Len(l) - 1) ELSE l

IsDocStart(l) ==
    /\ Len(l) >= 3
    /\ SubSeq(l, 1, 3) = Dashes3
    /\ (Len(l) = 3 \/ l[4] = " ")

IsDocEnd(l) == l = <<".", ".", ".">>

\* A "key: value" entry of a block mapping at column 0.
IsEntry(l) == Len(l) >= 4 /\ l[1] \in KeyChars /\ l[2] = ":" /\ l[3] = " "

\* The loader's failure on an entry's value, by the character that opens it:
\* an unclosed flow sequence (parser), an unclosed quoted scalar (scanner), an
\* undefined alias (composer), an unknown tag (constructor).
EntryError(l) ==
    CASE l[4] = "[" -> "ParserError"
      [] l[4] = "'" -> "ScannerError"
      [] l[4] = "*" -> "ComposerError"
      [] l[4] = "!" -> "ConstructorError"
      [] OTHER -> "none"

RECURSIVE DropBlank(_)
DropBlank(ls) ==
    IF ls = <<>> THEN <<>>
    ELSE (IF Strip(Head(ls)) = <<>> THEN <<>> ELSE <<ChopNL(Head(ls))>>)
         \o DropBlank(Tail(ls))

\* The lines of the first document: up to the next document marker.
RECURSIVE FirstDoc(_)
FirstDoc(ls) ==
    IF ls = <<>> \/ IsDocStart(Head(ls)) \/ IsDocEnd(Head(ls)) THEN <<>>
    ELSE <<Head(ls)>> \o FirstDoc(Tail(ls))

RECURSIVE FirstError(_)
FirstError(ls) ==
    IF ls = <<>> THEN "none"
    ELSE IF EntryError(Head(ls)) # "none" THEN EntryError(Head(ls))
    ELSE FirstError(Tail(ls))

RECURSIVE EntriesMap(_)
EntriesMap(ls) ==
    IF ls = <<>> THEN EmptyMap
    ELSE MergeMaps(EntriesMap(SubSeq(ls, 1, Len(ls) - 1)),
                   [k \in {ls[Len(ls)][1]} |-> ls[Len(ls)][4]])

\* first(yaml.load_all(text)): the first document of the text.
\*   exc:    the exception the loader raises, or "none"
\*   isdict: whether the document is a mapping
\*   val:    the mapping
YamlLoad(text) ==
    LET ls == DropBlank(Lines(text))
        inline == IF ls # <<>> /\ IsDocStart(Head(ls))
                  THEN Strip(SubSeq(Head(ls), 4, Len(Head(ls)))) ELSE <<>>
        body == IF ls # <<>> /\ IsDocStart(Head(ls))
                THEN FirstDoc(Tail(ls)) ELSE FirstDoc(ls)
        ok(d, v) == [exc |-> "none", isdict |-> d, val |-> v]
    IN  IF inline = <<"{", "}">> /\ body = <<>> THEN ok(TRUE, EmptyMap)
        ELSE IF inline # <<>> THEN ok(FALSE, EmptyMap)
        ELSE IF body = <<>> THEN ok(FALSE, EmptyMap)
        ELSE IF \A i \in 1..Len(body) : IsEntry(body[i])
        THEN IF FirstError(body) # "none"
             THEN [exc |-> FirstError(body), isdict |-> FALSE, val |-> EmptyMap]
             ELSE ok(TRUE, EntriesMap(body))
        ELSE IF \A i \in 1..Len(body) : ~Contains(body[i], <<":">>)
        THEN ok(FALSE, EmptyMap)
        ELSE [exc |-> "ScannerError", isdict |-> FALSE, val |-> EmptyMap]

\* The exceptions extract_yaml_doc catches.
Caught == {"ValueError", "ScannerError"}

\* The text extract_yaml_doc hands to the loader: the lines before the first
\* "...\n", joined with a newline.
HeaderRegion(text) == Join(<<NL>>, TakeWhileNot(Lines(text), DocEndLine))

\* extract_yaml_doc(path): exc is the exception that escapes it, or "none".
extract_yaml_doc(text) ==
    LET r == YamlLoad(HeaderRegion(text))
    IN  IF r.exc \in Caught THEN [exc |-> "none", data |-> EmptyMap]
        ELSE IF r.exc # "none" THEN [exc |-> r.exc, data |-> EmptyMap]
        ELSE IF ~r.isdict \/ DOMAIN r.val = {}
        THEN [exc |-> "none", data |-> EmptyMap]
        ELSE [exc |-> "none", data |-> r.val]

\* extract_file_text(path)
extract_file_text(all_text) ==
    IF ~Contains(all_text, separator) THEN all_text
    ELSE Strip(Flatten(RestAfter(Lines(all_text), separator)))

\* What save_file writes before the body: the header, "---", the markers and
\* the separator line.
WrittenHead(data, markers) ==
    DumpYaml(data) \o Dashes3 \o <<NL, NL>> \o markers \o <<NL, NL>> \o separator

\* save_file(data, markers, path) on a path in state old (Absent or File(t)).
\*   exc:     the exception that escapes, or "none"; the file is then untouched
\*   content: the text of the file afterwards
\*   header:  previous_header
\*   text:    the body taken from the old file
\*   sepEnd:  length of what is written up to the end of the separator line
save_file(data, markers, old) ==
    LET hdr == IF ~old.exists THEN [exc |-> "none", data |-> EmptyMap]
               ELSE extract_yaml_doc(old.text)
        text == IF ~old.exists THEN <<>> ELSE extract_file_text(old.text)
        final == MergeMaps(hdr.data, data)
        head == WrittenHead(final, markers)
    IN  IF hdr.exc # "none"
        THEN [exc |-> hdr.exc, content |-> old.text, header |-> EmptyMap,
              text |-> <<>>, sepEnd |-> 0]
        ELSE [exc |-> "none",
              content |-> head \o <<NL>> \o text \o <<NL>>,
              header |-> hdr.data, text |-> text, sepEnd |-> Len(head)]

---------------------------------------------------------------------------
(* Books *)

\* Book.name: the title cut at the first ":" and then at the first "(", with
\* ":" and "\" removed and "/" replaced by "-", stripped.
RECURSIVE Before(_, _)
Before(s, c) == IF s = <<>> \/ Head(s) = c THEN <<>>
                ELSE <<Head(s)>> \o Before(Tail(s), c)

RECURSIVE Translate(_)
Translate(s) ==
    IF s = <<>> THEN <<>>
    ELSE (CASE Head(s) \in {":", "\\"} -> <<>>
            [] Head(s) = "/" -> <<"-">>
            [] OTHER -> <<Head(s)>>) \o Translate(Tail(s))

Name(title) == Strip(Translate(Before(Before(title, ":"), "(")))

\* The books the two lists can serve. Only the fields the modelled code reads
\* are kept: book_id, title (for Book.name) and read_date.
ReadBooks == <<[book_id |-> "x", title |-> <<"A">>, read_date |-> "d"],
               [book_id |-> "y", title |-> <<"B", "/", ":", "x">>, read_date |-> None]>>
WantBooks == <<[book_id |-> "z", title |-> <<"A", " ", "(", "2">>, read_date |-> "e"],
               [book_id |-> "w", title |-> <<"\\", "B", "-", "(">>, read_date |-> "d"]>>

Range(f) == {f[i] : i \in DOMAIN f}

DocNames == {Name(b.title) : b \in Range(ReadBooks) \cup Range(WantBooks)}

---------------------------------------------------------------------------
(* The merge engine called on one document *)

\* The markers render_list passes: "#libro".
Libro == <<"#", "l", "i", "b", "r", "o">>

\* Pieces an initial document is made of.
Pieces == {<<"a">>, <<NL>>, <<"-">>, separator}

PieceSeqs == UNION {[1..n -> Pieces] : n \in 0..MaxPieces}

\* Headers an existing document may start with: none, the dump of a mapping,
\* and headers the loader fails on.
BadHeader(v) == Dashes3 \o <<NL>> \o <<"u", ":", " ">> \o v \o <<NL>> \o DocEndLine
HeaderTexts ==
    { <<>>,
      DumpYaml(EmptyMap),
      DumpYaml([k \in {"u"} |-> "v"]),
      BadHeader(<<"[">>),
      BadHeader(<<"'", "v">>),
      BadHeader(<<"*", "v">>) }

\* A line the loader reads as a block sequence entry: "-" followed by a space
\* or by the end of the line.
IsBlockEntry(l) ==
    LET t == LStrip(l)
    IN  t # <<>> /\ t[1] = "-" /\ (Len(t) = 1 \/ t[2] = " ")

\* Texts with no block sequence entry, on a line or after a document marker:
\* YamlLoad models the loader on mappings and plain text only, so the initial
\* documents are drawn from these.
NoBlockEntry(t) ==
    LET ls == Lines(t)
    IN  \A i \in 1..Len(ls) :
          /\ ~IsBlockEntry(ChopNL(ls[i]))
          /\ IsDocStart(ChopNL(ls[i]))
                => ~IsBlockEntry(SubSeq(ChopNL(ls[i]), 4, Len(ChopNL(ls[i]))))

InitDocs ==
    {h \o Flatten(ps) : h \in HeaderTexts, ps \in {q \in PieceSeqs : NoBlockEntry(Flatten(q))}}

\* The header fields a caller passes to save_file.
DataChoices ==
    { EmptyMap,
      [k \in {"b"} |-> "x"],
      [k \in {"b", "r"} |-> IF k = "b" THEN "y" ELSE "d"] }

MergePath == Name(ReadBooks[1].title)

NoMerge == [op |-> "none", path |-> <<>>, before |-> Absent, data |-> EmptyMap,
            exc |-> "none", header |-> EmptyMap, text |-> <<>>, sepEnd |-> 0]

InitFetchIdle ==
    /\ cache = [i \in {"read", "want"} |-> [exists |-> FALSE, books |-> <<>>]]
    /\ listas = [n \in {"Libros Leidos.md", "Want to Read.md"} |->
                    [exists |-> FALSE, count |-> 0, lines |-> <<>>]]
    /\ pc = "idle"
    /\ cmd = "none"
    /\ url = "none"
    /\ id = "none"
    /\ page = 1
    /\ all_books = <<>>
    /\ requests = <<>>
    /\ served = <<>>
    /\ netcalls = 0
    /\ hadSnapshot = FALSE
    /\ result = <<>>
    /\ outcome = "none"
    /\ todo = <<>>

InitParseIdle ==
    /\ events = <<>>
    /\ pos = 0
    /\ yielded = <<>>
    /\ ppc = "done"
    /\ feedItems = <<>>

InitMerge ==
    /\ \E d \in {Absent} \cup {File(t) : t \in InitDocs} :
          files = [n \in DocNames |-> IF n = MergePath THEN d ELSE Absent]
    /\ merge = NoMerge
    /\ InitFetchIdle
    /\ InitParseIdle

\* A call save_file(data, "#libro", p).
SaveFileCall(p, data) ==
    LET r == save_file(data, Libro, files[p])
    IN  /\ files' = [files EXCEPT ![p] = IF r.exc = "none" THEN File(r.content) ELSE @]
        /\ merge' = [op |-> "save", path |-> p, before |-> files[p], data |-> data,
                     exc |-> r.exc, header |-> r.header, text |-> r.text,
                     sepEnd |-> r.sepEnd]
        /\ UNCHANGED <<fetchVars, parseVars>>

NextMerge == \E data \in DataChoices : SaveFileCall(MergePath, data)

SpecMerge == InitMerge /\ [][NextMerge]_vars

---------------------------------------------------------------------------
(* Claims about the merge engine, under SpecMerge *)

\* Whether a line of t is the separator line.
HasSepLine(t) == \E i \in 1..Len(Lines(t)) : Lines(t)[i] = separator

\* The content of t that follows its first separator line.
BodyAfterSep(t) == Flatten(RestAfter(Lines(t), separator))

\* The text of the merged document that follows the separator line save_file
\* wrote.
WrittenBody ==
    SubSeq(files[merge.path].text, merge.sepEnd + 1, Len(files[merge.path].text))

Merged == merge.op = "save" /\ merge.exc = "none"

\* C3: after save_file on an existing document with a separator line, the text
\* that follows the written separator line is exactly the content that
\* followed the first separator line before the call.
C3_BodyPreserved ==
    (Merged /\ merge.before.exists /\ HasSepLine(merge.before.text))
        => WrittenBody = BodyAfterSep(merge.before.text)

\* C4: save_file called again with the same data and markers on the document
\* it produced leaves the document byte-identical.
C4_MergeIdempotent ==
    Merged =>
        LET again == save_file(merge.data, Libro, files[merge.path])
        IN  again.exc = "none" /\ again.content = files[merge.path].text

\* Whether the header region of t loads as a non-empty mapping.
HeaderParses(t) ==
    LET r == YamlLoad(HeaderRegion(t))
    IN  r.exc = "none" /\ r.isdict /\ DOMAIN r.val # {}

\* C7: when the existing document's header cannot be parsed as a mapping, for
\* whatever reason, save_file merges with an empty previous header and writes
\* the file; no exception escapes it.
C7_MalformedHeaderSoft ==
    (merge.op = "save" /\ merge.before.exists /\ ~HeaderParses(merge.before.text))
        => /\ merge.exc = "none"
           /\ merge.header = EmptyMap
           /\ files[merge.path].text = WrittenHead(merge.data, Libro) \o <<NL>> \o merge.text \o <<NL>>

\* C8: for an existing document with no line equal to the separator line,
\* extract_file_text returns the entire content, which the merge keeps as the
\* body.
C8_NoSeparatorWholeBody ==
    (merge.op = "save" /\ merge.before.exists /\ ~HasSepLine(merge.before.text))
        => /\ extract_file_text(merge.before.text) = merge.before.text
           /\ (merge.exc = "none" => merge.text = merge.before.text)

---------------------------------------------------------------------------
(* The feed, the pagination driver and the cache gate *)

Commands == {"list_read", "list_want", "render_read", "render_want"}

\* The url and the list id each command passes to print_list / render_list.
CmdUrl(c) == IF c = "render_want" THEN "want_url" ELSE "read_url"
CmdId(c) == IF c \in {"list_read", "render_read"} THEN "read" ELSE "want"
CmdRenders(c) == c \in {"render_read", "render_want"}
CmdListName(c) == IF c = "render_read" THEN "Libros Leidos.md" ELSE "Want to Read.md"

Catalogue(u) == IF u = "read_url" THEN ReadBooks ELSE WantBooks

\* The last page of the feed being fetched that may hold books.
PageLimit == IF cmd = "get_pages" THEN MaxPages ELSE MaxCmdPages

\* The books a well-formed page n of url u can hold; the pages after PageLimit
\* hold none.
PageBodies(u, n) ==
    IF n > PageLimit THEN {<<>>}
    ELSE {<<>>, <<Catalogue(u)[1]>>, <<Catalogue(u)[1], Catalogue(u)[2]>>}

\* What a GET of page n of url u can bring:
\*   net:        requests.get raised (no response)
\*   status:     the response's HTTP status
\*   wellformed: whether the body is well-formed XML
\*   books:      the books of the body's items
\* A response with an error status carries no items.
Responses(u, n) ==
    {[net |-> TRUE, status |-> 0, wellformed |-> FALSE, books |-> <<>>]}
    \cup {[net |-> FALSE, status |-> st, wellformed |-> FALSE, books |-> <<>>] :
            st \in {200, 503}}
    \cup {[net |-> FALSE, status |-> 200, wellformed |-> TRUE, books |-> b] :
            b \in PageBodies(u, n)}
    \cup {[net |-> FALSE, status |-> 503, wellformed |-> TRUE, books |-> <<>>]}

\* get_page(url, page) on a response: the exception it raises, or the books it
\* returns. The status of the response is not looked at.
get_page(resp) ==
    IF resp.net THEN [exc |-> "ConnectionError", books |-> <<>>]
    ELSE IF ~resp.wellformed THEN [exc |-> "SAXParseException", books |-> <<>>]
    ELSE [exc |-> "none", books |-> resp.books]

\* A driver that takes the first page that is not full for the last one.
PageEndsShort(books) == Len(books) < 2

\* get_pages: `if not books: break`.
PageEnds(books) == books = <<>>

\* get_cached(id, data_dir): None (here: exists FALSE) or the snapshot's books.
get_cached(i) == cache[i]

\* get_list: `if cached := get_cached(id, data_dir)`.
CacheHit(cached) == cached.exists /\ cached.books # <<>>

\* set_cached(id, data_dir, books): the cache afterwards.
set_cached(i, books) ==
    IF cache[i].exists THEN cache
    ELSE [cache EXCEPT ![i] = [exists |-> TRUE, books |-> books]]

\* The header fields render_list passes for a book.
BookData(b) == [k \in {"b", "r"} |-> IF k = "b" THEN b.book_id ELSE b.read_date]

\* write_ratings_list: the count of the first line, then one line per book, a
\* (read date, name) reference or an empty line.
RatingsList(books) ==
    [exists |-> TRUE,
     count |-> Len(books),
     lines |-> [i \in 1..Len(books) |->
                  IF books[i].read_date # None
                  THEN <<books[i].read_date, Name(books[i].title)>> ELSE <<>>]]

\* What the command does with the books get_list returned: print_list prints
\* them; render_list writes the list document and enters its loop over the
\* books.
Deliver(c, books) ==
    IF CmdRenders(c)
    THEN /\ listas' = [listas EXCEPT ![CmdListName(c)] = RatingsList(books)]
         /\ todo' = books
         /\ pc' = IF books = <<>> THEN "idle" ELSE "render"
         /\ outcome' = IF books = <<>> THEN "returned" ELSE "none"
    ELSE /\ UNCHANGED <<listas, todo>>
         /\ pc' = "idle"
         /\ outcome' = "returned"

\* One turn of the loop of render_list: the book's document is merged if it
\* exists. An exception (book.read_date.date() on None, or one save_file lets
\* escape) ends the command.
RenderStep ==
    /\ pc = "render"
    /\ LET b == Head(todo)
           path == Name(b.title)
           r == save_file(BookData(b), Libro, files[path])
           exc == IF ~files[path].exists THEN "none"
                  ELSE IF b.read_date = None THEN "AttributeError"
                  ELSE r.exc
       IN  /\ files' = IF files[path].exists /\ exc = "none"
                       THEN [files EXCEPT ![path] = File(r.content)]
                       ELSE files
           /\ todo' = IF exc = "none" THEN Tail(todo) ELSE todo
           /\ pc' = IF exc = "none" /\ Tail(todo) # <<>> THEN "render" ELSE "idle"
           /\ outcome' = IF exc # "none" THEN "raised"
                         ELSE IF Tail(todo) = <<>> THEN "returned" ELSE "none"
    /\ UNCHANGED <<cache, listas, merge, cmd, url, id, page, all_books, requests,
                   served, netcalls, hadSnapshot, result, parseVars>>

\* A command whose get_list returns the snapshot.
CommandHit(c) ==
    /\ pc = "idle"
    /\ CacheHit(get_cached(CmdId(c)))
    /\ cmd' = c
    /\ url' = CmdUrl(c)
    /\ id' = CmdId(c)
    /\ hadSnapshot' = cache[CmdId(c)].exists
    /\ netcalls' = 0
    /\ requests' = <<>>
    /\ served' = <<>>
    /\ page' = 1
    /\ all_books' = <<>>
    /\ result' = get_cached(CmdId(c)).books
    /\ Deliver(c, get_cached(CmdId(c)).books)
    /\ UNCHANGED <<cache, files, merge, parseVars>>

\* A command whose get_list goes on to get_pages.
CommandMiss(c) ==
    /\ pc = "idle"
    /\ ~CacheHit(get_cached(CmdId(c)))
    /\ cmd' = c
    /\ url' = CmdUrl(c)
    /\ id' = CmdId(c)
    /\ hadSnapshot' = cache[CmdId(c)].exists
    /\ netcalls' = 0
    /\ requests' = <<>>
    /\ served' = <<>>
    /\ page' = 1
    /\ all_books' = <<>>
    /\ result' = <<>>
    /\ outcome' = "none"
    /\ pc' = "get_pages"
    /\ UNCHANGED <<cache, listas, files, merge, todo, parseVars>>

\* get_pages(u) called on its own.
CallGetPages(u) ==
    /\ pc \in {"idle", "got_pages"}
    /\ cmd' = "get_pages"
    /\ url' = u
    /\ id' = "none"
    /\ hadSnapshot' = FALSE
    /\ netcalls' = 0
    /\ requests' = <<>>
    /\ served' = <<>>
    /\ page' = 1
    /\ all_books' = <<>>
    /\ result' = <<>>
    /\ outcome' = "none"
    /\ pc' = "get_pages"
    /\ UNCHANGED <<cache, listas, files, merge, todo, parseVars>>

\* One turn of the loop of get_pages in which the page holds books.
GetPageBooks ==
    /\ pc = "get_pages"
    /\ \E resp \in Responses(url, page) :
          /\ get_page(resp).exc = "none"
          /\ ~PageEnds(get_page(resp).books)
          /\ all_books' = all_books \o get_page(resp).books
          /\ served' = Append(served, resp)
    /\ requests' = Append(requests, page)
    /\ netcalls' = netcalls + 1
    /\ page' = page + 1
    /\ UNCHANGED <<cache, listas, files, merge, pc, cmd, url, id, hadSnapshot,
                   result, outcome, todo, parseVars>>

\* The turn in which the page holds no book: get_pages returns all_books.
GetPageEmpty ==
    /\ pc = "get_pages"
    /\ \E resp \in Responses(url, page) :
          /\ get_page(resp).exc = "none"
          /\ PageEnds(get_page(resp).books)
          /\ served' = Append(served, resp)
    /\ requests' = Append(requests, page)
    /\ netcalls' = netcalls + 1
    /\ result' = all_books
    /\ pc' = "got_pages"
    /\ UNCHANGED <<cache, listas, files, merge, cmd, url, id, page, all_books,
                   hadSnapshot, outcome, todo, parseVars>>

\* The turn in which get_page raises: the exception ends the command.
GetPageRaise ==
    /\ pc = "get_pages"
    /\ \E resp \in Responses(url, page) :
          /\ get_page(resp).exc # "none"
          /\ served' = Append(served, resp)
    /\ requests' = Append(requests, page)
    /\ netcalls' = netcalls + 1
    /\ outcome' = "raised"
    /\ pc' = "idle"
    /\ UNCHANGED <<cache, listas, files, merge, cmd, url, id, page, all_books,
                   hadSnapshot, result, todo, parseVars>>

\* get_list after get_pages returned: set_cached, then the command's output.
GetListStore ==
    /\ pc = "got_pages"
    /\ cmd \in Commands
    /\ cache' = set_cached(id, result)
    /\ Deliver(cmd, result)
    /\ UNCHANGED <<files, merge, cmd, url, id, page, all_books, requests, served,
                   netcalls, hadSnapshot, result, parseVars>>

\* Documents books_dir may hold before the first command.
SmallDocs == {<<"a", NL>>}

Init ==
    /\ files \in [DocNames -> {Absent} \cup {File(t) : t \in SmallDocs}]
    /\ merge = NoMerge
    /\ InitFetchIdle
    /\ InitParseIdle

Next ==
    \/ \E c \in Commands : CommandHit(c)
    \/ \E c \in Commands : CommandMiss(c)
    \/ GetPageBooks
    \/ GetPageEmpty
    \/ GetPageRaise
    \/ GetListStore
    \/ RenderStep

Spec == Init /\ [][Next]_vars

\* get_pages alone, with the fairness of a loop that keeps running.
InitPages ==
    /\ files = [n \in DocNames |-> Absent]
    /\ merge = NoMerge
    /\ InitFetchIdle
    /\ InitParseIdle

NextPages ==
    \/ \E u \in {"read_url", "want_url"} : CallGetPages(u)
    \/ GetPageBooks
    \/ GetPageEmpty
    \/ GetPageRaise

SpecPages ==
    InitPages /\ [][NextPages]_vars
              /\ WF_vars(GetPageBooks \/ GetPageEmpty \/ GetPageRaise)

---------------------------------------------------------------------------
(* Claims about the cache gate, the commands and the pagination driver *)

\* C1: a get_list entered while today's snapshot of its list exists makes no
\* page fetch and returns the snapshot, whatever the snapshot holds.
C1_CacheGateHit ==
    (cmd \in Commands /\ hadSnapshot)
        => /\ netcalls = 0
           /\ (outcome = "returned" => result = cache[id].books)

\* The books of the pages get_page returned, in page order.
RECURSIVE ConcatBooks(_)
ConcatBooks(rs) ==
    IF rs = <<>> THEN <<>> ELSE get_page(Head(rs)).books \o ConcatBooks(Tail(rs))

\* Whether get_page returned books for the response.
HoldsBooks(resp) == get_page(resp).exc = "none" /\ get_page(resp).books # <<>>
HoldsNone(resp) == get_page(resp).exc = "none" /\ get_page(resp).books = <<>>

PagesInOrder ==
    /\ requests = [i \in 1..Len(requests) |-> i]
    /\ Len(served) = Len(requests)
    /\ pc = "get_pages" =>
          /\ page = Len(requests) + 1
          /\ \A i \in 1..Len(served) : HoldsBooks(served[i])
          /\ all_books = ConcatBooks(served)
    /\ pc = "got_pages" =>
          /\ Len(served) >= 1
          /\ HoldsNone(served[Len(served)])
          /\ \A i \in 1..(Len(served) - 1) : HoldsBooks(served[i])
          /\ result = ConcatBooks(SubSeq(served, 1, Len(served) - 1))

\* C2: get_pages requests pages 1, 2, 3, ... in order, one at a time; it stops
\* at the first page that yields no book, requests no page after it, and
\* returns the books of the pages before it in page order; and it terminates.
C2_PaginationTermination ==
    /\ []PagesInOrder
    /\ (pc = "get_pages") ~> (pc # "get_pages")

\* get_pages has returned the 3 books of a page of 2 and a page of 1, after 3
\* requests.
C2_Witness ==
    /\ pc = "got_pages"
    /\ cmd = "get_pages"
    /\ requests = <<1, 2, 3>>
    /\ Len(served[1].books) = 2
    /\ Len(served[2].books) = 1
    /\ Len(result) = 3

\* A fetch that failed: no response, an HTTP error status, or a body that is
\* not well-formed XML.
FetchFailed(resp) == resp.net \/ resp.status # 200 \/ ~resp.wellformed

\* C6: when the fetch of a page fails, get_list raises: the failure does not
\* end the pagination as an empty page would, nothing is returned and no
\* snapshot is written.
C6_FetchFailureFatal ==
    (cmd \in Commands /\ \E i \in 1..Len(served) : FetchFailed(served[i]))
        => /\ pc = "idle"
           /\ outcome = "raised"
           /\ (~hadSnapshot => ~cache[id].exists)

\* C9: after render_list completes, every book of the collection has its
\* document in books_dir.
C9_DocumentLifecycle ==
    (CmdRenders(cmd) /\ pc = "idle" /\ outcome = "returned")
        => \A i \in 1..Len(result) : files[Name(result[i].title)].exists

\* C10: the snapshot stored under "read" holds only books fetched from
\* read_url, and the snapshot stored under "want" only books fetched from
\* want_url.
C10_SnapshotsListFaithful ==
    /\ \A i \in 1..Len(cache["read"].books) :
          cache["read"].books[i] \in Range(ReadBooks)
    /\ \A i \in 1..Len(cache["want"].books) :
          cache["want"].books[i] \in Range(WantBooks)

---------------------------------------------------------------------------
(* The extractor: parse_list and parse_item over one event stream *)

\* Event(status, node): name is node.nodeName, value is node.nodeValue.
StartDocument == [status |-> "START_DOCUMENT", name |-> "#document", value |-> <<>>]
StartElement(n) == [status |-> "START_ELEMENT", name |-> n, value |-> <<>>]
EndElement(n) == [status |-> "END_ELEMENT", name |-> n, value |-> <<>>]
Characters(t) == [status |-> "CHARACTERS", name |-> "#text", value |-> t]

is_text(e) == e.status = "CHARACTERS"
is_start(e) == e.status = "START_ELEMENT"
is_end(e) == e.status = "END_ELEMENT"

\* An element with text content; no CHARACTERS event when the text is empty.
Field(n, t) ==
    <<StartElement(n)>> \o (IF t = <<>> THEN <<>> ELSE <<Characters(t)>>)
        \o <<EndElement(n)>>

\* The events of one item of the feed: its title, and its book_id element
\* when it has one.
ItemEvents(it) ==
    <<StartElement("item")>> \o Field("title", it.title)
        \o (IF it.has_id THEN Field("book_id", it.book_id) ELSE <<>>)
        \o <<EndElement("item")>>

\* g whitespace text events.
Gap(g) == [i \in 1..g |-> Characters(<<NL, " ">>)]

RECURSIVE ItemsEvents(_, _, _)
ItemsEvents(items, gaps, i) ==
    IF i > Len(items) THEN <<>>
    ELSE ItemEvents(items[i]) \o Gap(gaps[i]) \o ItemsEvents(items, gaps, i + 1)

\* The event stream of a well-formed feed page: gaps[0] text events before
\* the first item, gaps[i] after item i.
PageEvents(items, gaps) ==
    <<StartDocument, StartElement("rss"), StartElement("channel")>>
        \o Field("title", <<"F">>) \o Gap(gaps[0])
        \o ItemsEvents(items, gaps, 1)
        \o <<EndElement("channel"), EndElement("rss")>>

\* The items a page may hold: a book_id element that is missing, empty or
\* filled.
ItemChoices ==
    {[has_id |-> FALSE, book_id |-> <<>>, title |-> <<"<", "i", ">", "T">>],
     [has_id |-> TRUE, book_id |-> <<>>, title |-> <<"T">>],
     [has_id |-> TRUE, book_id |-> <<"7">>, title |-> <<"T", " ">>],
     [has_id |-> TRUE, book_id |-> <<"8">>, title |-> <<"U">>]}

\* BeautifulSoup(text, "html.parser").text: the text without its tags.
RECURSIVE HtmlText(_, _)
HtmlText(s, intag) ==
    IF s = <<>> THEN <<>>
    ELSE IF Head(s) = "<" THEN HtmlText(Tail(s), TRUE)
    ELSE IF Head(s) = ">" /\ intag THEN HtmlText(Tail(s), FALSE)
    ELSE (IF intag THEN <<>> ELSE <<Head(s)>>) \o HtmlText(Tail(s), intag)

\* The keys an item mapping is read or written at; "None" is the key None.
ItemKeys == {"title", "book_id", "pubDate", "user_date_added",
             "user_date_created", "None"}

\* defaultdict(str)
EmptyItem == [k \in ItemKeys |-> <<>>]

\* The loop of parse_item over the events of one item: st is
\* [current_name, item].
ItemEvent(st, e) ==
    IF is_start(e) THEN [st EXCEPT !.current_name = e.name]
    ELSE IF is_text(e) /\ st.current_name # "None"
    THEN [st EXCEPT !.item[st.current_name] = @ \o e.value]
    ELSE IF is_end(e)
    THEN [current_name |-> "None",
          item |-> [st.item EXCEPT ![st.current_name] = HtmlText(Strip(@), FALSE)]]
    ELSE st

RECURSIVE ItemLoop(_, _)
ItemLoop(st, es) ==
    IF es = <<>> THEN st ELSE ItemLoop(ItemEvent(st, Head(es)), Tail(es))

\* Index of the first event at or after i that satisfies the stop test of
\* the generator or takewhile reading the stream; Len(es) + 1 when the stream
\* runs out.
RECURSIVE NextItemStart(_, _)
NextItemStart(es, i) ==
    IF i > Len(es) THEN i
    ELSE IF es[i].name = "item" /\ is_start(es[i]) THEN i
    ELSE NextItemStart(es, i + 1)

RECURSIVE NextItemEvent(_, _)
NextItemEvent(es, i) ==
    IF i > Len(es) THEN i
    ELSE IF es[i].name = "item" THEN i
    ELSE NextItemEvent(es, i + 1)

\* parse_item(events) with consumed events already taken from the stream:
\* the item mapping, and the number of events taken when it returns.
parse_item(es, consumed) ==
    LET s == NextItemStart(es, consumed + 1)
        t == NextItemEvent(es, s + 1)
        st == ItemLoop([current_name |-> "None", item |-> EmptyItem],
                       SubSeq(es, s + 1, t - 1))
    IN  [item |-> st.item, consumed |-> IF t > Len(es) THEN Len(es) ELSE t]

\* to_date(text): the date, or None when the text does not match the format;
\* "d" and "e" stand for two texts that match it.
to_date(text) == IF text \in {<<"d">>, <<"e">>} THEN text[1] ELSE None

\* Book.from_goodreads(entry): read_date is the first of three fields of the
\* entry that parses.
from_goodreads(entry) ==
    [book_id |-> entry["book_id"],
     title |-> entry["title"],
     read_date |->
        IF to_date(entry["pubDate"]) # None THEN to_date(entry["pubDate"])
        ELSE IF to_date(entry["user_date_added"]) # None
        THEN to_date(entry["user_date_added"])
        ELSE to_date(entry["user_date_created"])]

\* One turn of the loop of parse_list: the loop takes one event from the
\* stream, then parse_item reads on from the same stream.
ParseItemStep ==
    /\ ppc = "parsing"
    /\ pos < Len(events)
    /\ ~(is_end(events[pos + 1]) /\ events[pos + 1].name = "channel")
    /\ LET r == parse_item(events, pos + 1)
       IN  /\ pos' = r.consumed
           /\ yielded' = IF r.item["book_id"] # <<>>
                         THEN Append(yielded, from_goodreads(r.item))
                         ELSE yielded
    /\ UNCHANGED <<ppc, events, feedItems, mergeVars, fetchVars>>

\* The loop of parse_list ends: the stream has run out, or the event taken
\* is the end of channel.
ParseEnd ==
    /\ ppc = "parsing"
    /\ IF pos >= Len(events) THEN TRUE
       ELSE is_end(events[pos + 1]) /\ events[pos + 1].name = "channel"
    /\ pos' = IF pos >= Len(events) THEN pos ELSE pos + 1
    /\ ppc' = "done"
    /\ UNCHANGED <<yielded, events, feedItems, mergeVars, fetchVars>>

InitParse ==
    /\ \E n \in 0..MaxItems :
         \E items \in [1..n -> ItemChoices], gaps \in [0..n -> 0..MaxGap] :
            /\ events = PageEvents(items, gaps)
            /\ feedItems = items
    /\ pos = 0
    /\ yielded = <<>>
    /\ ppc = "parsing"
    /\ files = [n \in DocNames |-> Absent]
    /\ merge = NoMerge
    /\ InitFetchIdle

NextParse == ParseItemStep \/ ParseEnd

SpecParse == InitParse /\ [][NextParse]_vars

\* The book_id of the items of the feed that have a non-empty one, in
\* document order.
RECURSIVE FeedIds(_)
FeedIds(items) ==
    IF items = <<>> THEN <<>>
    ELSE (IF Head(items).has_id /\ Head(items).book_id # <<>>
          THEN <<Head(items).book_id>> ELSE <<>>) \o FeedIds(Tail(items))

\* C5: parse_list yields exactly one Book for each item of the page whose
\* book_id is non-empty, in document order, whatever lies between the items.
C5_ExtractionCorrect ==
    ppc = "done" => [i \in 1..Len(yielded) |-> yielded[i].book_id] = FeedIds(feedItems)

====
